---- MODULE Spec2Model ----
(***************************************************************************)
(* Model of classroom/snippets/snippets.py: the class ClassroomSnippets,   *)
(* driven against a fake service whose next reply is scripted.  One        *)
(* behaviour is one invocation `ClassroomSnippets(service).<name>()`.      *)
(***************************************************************************)
EXTENDS Integers, Sequences, FiniteSets, TLC

\* ------------------------------------------------------------------ bounds
MaxFetches == 3
MaxItems == 1

\* --------------------------------------------------------- program constants
PageSize == 100
course_id == "123456"

\* ------------------------------------------------------------ value domains
None == "<None>"
Items == {"c1", "c2"}
Tokens == {"t1", "t2"}
Names == {"Biology", "Math"}
Codes == {404, 409, 500}

\* Attributes that `class ClassroomSnippets` binds: the defs at class level.
Methods ==
    {"create_course", "get_course", "list_courses", "update_course",
     "patch_course", "add_alias_new", "add_alias_existing"}

\* Functions defined inside the body of add_alias_existing (one indentation
\* level deeper): local names of that call, never attributes of the class.
NestedFunctions ==
    {"add_teacher", "add_student", "create_coursework", "list_submissions",
     "list_student_submissions", "list_all_submissions"}

Operations == Methods \cup NestedFunctions

ListOperations ==
    {"list_courses", "list_submissions", "list_student_submissions",
     "list_all_submissions"}

EnrollOperations == {"add_teacher", "add_student"}

ItemSeqs == UNION {[1..n -> Items] : n \in 0..MaxItems}

\* ------------------------------------------------- replies of the service
\* What `.execute()` gives back: a decoded response, or an HttpError whose
\* content is the JSON error object, is not JSON, or has no 'error' key.
NoReply ==
    [kind |-> "none", body |-> "-", code |-> 0, hasItems |-> FALSE,
     items |-> <<>>, hasToken |-> FALSE, token |-> "", name |-> "-"]

Page(hasItems, items, hasToken, token) ==
    [kind |-> "ok", body |-> "-", code |-> 0, hasItems |-> hasItems,
     items |-> items, hasToken |-> hasToken, token |-> token, name |-> "-"]

Pages ==
    {Page(TRUE, s, TRUE, t) : s \in ItemSeqs, t \in Tokens \cup {""}}
    \cup {Page(TRUE, s, FALSE, "") : s \in ItemSeqs}
    \cup {Page(FALSE, <<>>, TRUE, t) : t \in Tokens \cup {""}}
    \cup {Page(FALSE, <<>>, FALSE, "")}

Resources == {[NoReply EXCEPT !.kind = "ok", !.name = n] : n \in Names}

Errors ==
    {[NoReply EXCEPT !.kind = "err", !.body = "error_object", !.code = c] :
        c \in Codes}
    \cup {[NoReply EXCEPT !.kind = "err", !.body = b] :
        b \in {"not_json", "no_error_key"}}

RepliesTo(o) ==
    IF o \in ListOperations THEN Pages \cup Errors ELSE Resources \cup Errors

\* ---------------------------------------------------- exceptions, outcomes
NoExc == [type |-> "-", code |-> 0, body |-> "-"]
HttpError(e) == [type |-> "HttpError", code |-> e.code, body |-> e.body]
ValueError == [type |-> "ValueError", code |-> 0, body |-> "-"]
AttributeError == [type |-> "AttributeError", code |-> 0, body |-> "-"]

Running == [kind |-> "running", exc |-> NoExc]
Returned == [kind |-> "returned", exc |-> NoExc]
Raised(x) == [kind |-> "raised", exc |-> x]

\* One print() call: its text and the value printed with it.
Msg(text, arg) == [text |-> text, arg |-> arg]

VARIABLES
    op,          \* the attribute invoked on the ClassroomSnippets object
    pc,          \* position of the call: idle, call, loop, report, update, done
    pending,     \* fake service: the reply it gives to the next request
    requests,    \* fake service: the requests executed so far, in order
    responses,   \* fake service: the replies given so far, in order
    courses,     \* list_courses: the accumulated list
    page_token,  \* list_courses: the loop's page token
    output,      \* the print() calls made, in order
    outcome      \* running, returned, or raised with the exception

vars ==
    <<op, pc, pending, requests, responses, courses, page_token, output,
      outcome>>

Init ==
    /\ op = "-"
    /\ pc = "idle"
    /\ pending = NoReply
    /\ requests = <<>>
    /\ responses = <<>>
    /\ courses = <<>>
    /\ page_token = None
    /\ output = <<>>
    /\ outcome = Running

\* --------------------------------------------------------------- helpers
\* Python truthiness of a page token: None and '' are falsy.
Truthy(t) == t # None /\ t # ""

\* response.get('courses', [])
GetItems(response) == IF response.hasItems THEN response.items ELSE <<>>

\* response.get('nextPageToken', None)
GetNextPageToken(response) ==
    IF response.hasToken THEN response.token ELSE None

ExtendReversed(list, more) == more \o list

\* courses.extend(more)
Extend(list, more) == list \o more

PageTokenArgStale(token) == None

\* The pageToken argument of the list request.
PageTokenArg(token) == token

LoopBreaksCapped(token) == ~Truthy(token) \/ Len(requests) >= 1

\* `if not page_token: break`
LoopBreaks(token) == ~Truthy(token)

\* request(...).execute(): the service records the request and gives its
\* pending reply.
Execute(method, token, size) ==
    /\ pending # NoReply
    /\ requests' =
          Append(requests,
                 [method |-> method, pageToken |-> token, pageSize |-> size])
    /\ responses' = Append(responses, pending)

\* An operation that ends: nothing further is scripted.
Finish(out, result) ==
    /\ output' = output \o out
    /\ outcome' = result
    /\ pc' = "done"
    /\ pending' = NoReply

UncaughtSwallowed(e) == [output |-> <<>>, outcome |-> Returned]

UncaughtPartial(e) ==
    [output |-> IF courses = <<>> THEN <<>> ELSE <<Msg("Courses:", "")>>,
     outcome |-> Returned]

\* An HttpError that no handler of the operation catches.
Uncaught(e) == [output |-> <<>>, outcome |-> Raised(HttpError(e))]

\* --------------------------------------------------------------- actions
Invoke ==
    /\ pc = "idle"
    /\ \E o \in Operations :
          /\ op' = o
          /\ pending' \in RepliesTo(o)
    /\ pc' = "call"
    /\ UNCHANGED <<requests, responses, courses, page_token, output, outcome>>

\* Attribute lookup of a name the class does not bind.
LookupFails ==
    /\ pc = "call"
    /\ op \notin Methods
    /\ outcome' = Raised(AttributeError)
    /\ pc' = "done"
    /\ UNCHANGED <<op, pending, requests, responses, courses, page_token,
                   output>>

CreateCourse ==
    /\ pc = "call"
    /\ op = "create_course"
    /\ Execute("courses.create", None, 0)
    /\ LET r == IF pending.kind = "err"
                  THEN Uncaught(pending)
                  ELSE [output |-> <<Msg("Course created:", pending.name)>>,
                        outcome |-> Returned]
       IN Finish(r.output, r.outcome)
    /\ UNCHANGED <<op, courses, page_token>>

GetCourseExceptWrongCode(e) ==
    IF e.body = "not_json" THEN [output |-> <<>>, outcome |-> Raised(ValueError)]
    ELSE IF e.body = "no_error_key"
    THEN [output |-> <<>>, outcome |-> Raised(AttributeError)]
    ELSE IF e.code = 409
    THEN [output |-> <<Msg("Course with ID not found.", course_id)>>,
          outcome |-> Returned]
    ELSE [output |-> <<>>, outcome |-> Raised(HttpError(e))]

GetCourseExceptNoReraise(e) ==
    [output |-> <<Msg("Course with ID not found.", course_id)>>,
     outcome |-> Returned]

\* The except clause of get_course.
GetCourseExcept(e) ==
    IF e.body = "not_json" THEN [output |-> <<>>, outcome |-> Raised(ValueError)]
    ELSE IF e.body = "no_error_key"
    THEN [output |-> <<>>, outcome |-> Raised(AttributeError)]
    ELSE IF e.code = 404
    THEN [output |-> <<Msg("Course with ID not found.", course_id)>>,
          outcome |-> Returned]
    ELSE [output |-> <<>>, outcome |-> Raised(HttpError(e))]

GetCourse ==
    /\ pc = "call"
    /\ op = "get_course"
    /\ Execute("courses.get", None, 0)
    /\ LET r == IF pending.kind = "err"
                  THEN GetCourseExcept(pending)
                  ELSE [output |-> <<Msg("Course found.", pending.name)>>,
                        outcome |-> Returned]
       IN Finish(r.output, r.outcome)
    /\ UNCHANGED <<op, courses, page_token>>

ListCoursesStart ==
    /\ pc = "call"
    /\ op = "list_courses"
    /\ courses' = <<>>
    /\ page_token' = None
    /\ pc' = "loop"
    /\ UNCHANGED <<op, pending, requests, responses, output, outcome>>

\* One iteration of the `while True` loop.
ListCoursesFetch ==
    /\ pc = "loop"
    /\ op = "list_courses"
    /\ Len(requests) < MaxFetches
    /\ Execute("courses.list", PageTokenArg(page_token), PageSize)
    /\ IF pending.kind = "err"
         THEN /\ Finish(Uncaught(pending).output, Uncaught(pending).outcome)
              /\ UNCHANGED <<courses, page_token>>
         ELSE /\ courses' = Extend(courses, GetItems(pending))
              /\ page_token' = GetNextPageToken(pending)
              /\ IF LoopBreaks(page_token')
                   THEN /\ pc' = "report"
                        /\ pending' = NoReply
                   ELSE /\ pc' = "loop"
                        /\ IF Len(requests') < MaxFetches
                             THEN pending' \in RepliesTo(op)
                             ELSE pending' = NoReply
              /\ UNCHANGED <<output, outcome>>
    /\ UNCHANGED op

ReportAlwaysEnumerates(list) ==
    <<Msg("Courses:", "")>> \o [i \in 1..Len(list) |-> Msg("course", list[i])]

\* The prints after the loop.
Report(list) ==
    IF list = <<>>
      THEN <<Msg("No courses found.", "")>>
      ELSE <<Msg("Courses:", "")>>
           \o [i \in 1..Len(list) |-> Msg("course", list[i])]

ListCoursesReport ==
    /\ pc = "report"
    /\ op = "list_courses"
    /\ Finish(Report(courses), Returned)
    /\ UNCHANGED <<op, requests, responses, courses, page_token>>

UpdateCourseGet ==
    /\ pc = "call"
    /\ op = "update_course"
    /\ Execute("courses.get", None, 0)
    /\ IF pending.kind = "err"
         THEN Finish(Uncaught(pending).output, Uncaught(pending).outcome)
         ELSE /\ pc' = "update"
              /\ pending' \in RepliesTo(op)
              /\ UNCHANGED <<output, outcome>>
    /\ UNCHANGED <<op, courses, page_token>>

UpdateCourseUpdate ==
    /\ pc = "update"
    /\ op = "update_course"
    /\ Execute("courses.update", None, 0)
    /\ LET r == IF pending.kind = "err"
                  THEN Uncaught(pending)
                  ELSE [output |-> <<Msg("Course updated.", pending.name)>>,
                        outcome |-> Returned]
       IN Finish(r.output, r.outcome)
    /\ UNCHANGED <<op, courses, page_token>>

PatchCourseRetry ==
    /\ pc = "call"
    /\ op = "patch_course"
    /\ Len(requests) < MaxFetches
    /\ Execute("courses.patch", None, 0)
    /\ IF pending.kind = "err"
         THEN /\ pc' = "call"
              /\ pending' \in RepliesTo(op)
              /\ UNCHANGED <<output, outcome>>
         ELSE Finish(<<Msg("Course updated.", pending.name)>>, Returned)
    /\ UNCHANGED <<op, courses, page_token>>

PatchCourse ==
    /\ pc = "call"
    /\ op = "patch_course"
    /\ Execute("courses.patch", None, 0)
    /\ LET r == IF pending.kind = "err"
                  THEN Uncaught(pending)
                  ELSE [output |-> <<Msg("Course updated.", pending.name)>>,
                        outcome |-> Returned]
       IN Finish(r.output, r.outcome)
    /\ UNCHANGED <<op, courses, page_token>>

\* `except errors.HttpError: print(...)` of the two alias snippets.
AliasExcept(e, text) == [output |-> <<Msg(text, "")>>, outcome |-> Returned]

AddAliasNew ==
    /\ pc = "call"
    /\ op = "add_alias_new"
    /\ Execute("courses.create", None, 0)
    /\ LET r == IF pending.kind = "err"
                  THEN AliasExcept(pending, "Course Creation Failed")
                  ELSE [output |-> <<>>, outcome |-> Returned]
       IN Finish(r.output, r.outcome)
    /\ UNCHANGED <<op, courses, page_token>>

\* After the request the body only defines its local functions.
AddAliasExisting ==
    /\ pc = "call"
    /\ op = "add_alias_existing"
    /\ Execute("courses.aliases.create", None, 0)
    /\ LET r == IF pending.kind = "err"
                  THEN AliasExcept(pending, "Alias Creation Failed")
                  ELSE [output |-> <<>>, outcome |-> Returned]
       IN Finish(r.output, r.outcome)
    /\ UNCHANGED <<op, courses, page_token>>

Next ==
    \/ Invoke
    \/ LookupFails
    \/ CreateCourse
    \/ GetCourse
    \/ ListCoursesStart
    \/ ListCoursesFetch
    \/ ListCoursesReport
    \/ UpdateCourseGet
    \/ UpdateCourseUpdate
    \/ PatchCourse
    \/ AddAliasNew
    \/ AddAliasExisting

Spec == Init /\ [][Next]_vars

TypeOK ==
    /\ op \in Operations \cup {"-"}
    /\ pc \in {"idle", "call", "loop", "report", "update", "done"}
    /\ outcome.kind \in {"running", "returned", "raised"}
    /\ Len(requests) = Len(responses)

\* ------------------------------------------------------------ properties
RECURSIVE ConcatItems(_)
ConcatItems(rs) ==
    IF rs = <<>> THEN <<>> ELSE rs[1].items \o ConcatItems(Tail(rs))

Last(s) == s[Len(s)]

ListingFinished ==
    /\ op = "list_courses"
    /\ pc \in {"report", "done"}
    /\ outcome.kind # "raised"
    /\ \A i \in 1..Len(responses) : responses[i].kind = "ok"

\* A failure that carries a decodable error object with a status code.
CodedFailure(r) == r.kind = "err" /\ r.body = "error_object"

SameError(x, r) ==
    x.type = "HttpError" /\ x.code = r.code /\ x.body = r.body

SingleCallOperations == Operations \ ListOperations

AliasOperations == {"add_alias_new", "add_alias_existing"}

\* C1: when list_courses has fetched its last page, the accumulated list is
\* the concatenation of the items of the pages served, in the order served.
C1_Concatenation ==
    ListingFinished => courses = ConcatItems(responses)

C1_Witness ==
    /\ ListingFinished
    /\ pc = "done"
    /\ Len(responses) = 3
    /\ responses[1].items = <<"c2">>
    /\ responses[2].items = <<>>
    /\ responses[3].items = <<"c1">>
    /\ courses = <<"c2", "c1">>

\* C2: the first list request carries no page token, every later one carries
\* the next-token of the response just before it, none follows a response
\* without a next-token, and a first page without a next-token means exactly
\* one request and a result equal to that page's items.
C2_TokenChain ==
    op = "list_courses" =>
      /\ Len(requests) >= 1 => requests[1].pageToken = None
      /\ \A i \in 2..Len(requests) :
            /\ responses[i - 1].kind = "ok"
            /\ responses[i - 1].hasToken
            /\ requests[i].pageToken = responses[i - 1].token
      /\ ( /\ Len(responses) >= 1
           /\ responses[1].kind = "ok"
           /\ ~responses[1].hasToken )
         => /\ Len(requests) = 1
            /\ pc \in {"report", "done"}
            /\ courses = responses[1].items

C2_Witness ==
    /\ op = "list_courses"
    /\ pc = "done"
    /\ Len(requests) = 3
    /\ requests[1].pageToken = None
    /\ requests[2].pageToken = "t1"
    /\ requests[3].pageToken = "t2"
    /\ ~responses[3].hasToken

\* C3: get_course whose request fails with decoded code 404 returns normally
\* after printing the not-found message with the requested course id.
C3_NotFoundRecovered ==
    ( /\ op = "get_course"
      /\ pc = "done"
      /\ CodedFailure(responses[1])
      /\ responses[1].code = 404 )
    => /\ outcome = Returned
       /\ output = <<Msg("Course with ID not found.", course_id)>>

C3_Witness ==
    /\ op = "get_course"
    /\ pc = "done"
    /\ CodedFailure(responses[1])
    /\ responses[1].code = 404
    /\ outcome.kind = "returned"
    /\ output[1].arg = "123456"

\* C4: get_course whose request fails with a decoded code other than 404
\* raises that same error and prints nothing.
C4_OtherPropagates ==
    ( /\ op = "get_course"
      /\ pc = "done"
      /\ CodedFailure(responses[1])
      /\ responses[1].code # 404 )
    => /\ outcome.kind = "raised"
       /\ SameError(outcome.exc, responses[1])
       /\ output = <<>>

C4_Witness ==
    /\ op = "get_course"
    /\ pc = "done"
    /\ CodedFailure(responses[1])
    /\ responses[1].code = 500
    /\ outcome.kind = "raised"
    /\ outcome.exc.code = 500

\* The reply the service has for the request of a single-call operation:
\* the one it gave, or the one still pending when none was asked for.
ScriptedReply == IF responses # <<>> THEN responses[1] ELSE pending

\* C5: add_teacher / add_student invoked on ClassroomSnippets against a
\* service that answers 409 ends recovered with the already-a-member
\* message; against any other failure code the failure propagates.
C5_EnrollConflictRecovered ==
    ( /\ op \in EnrollOperations
      /\ pc = "done"
      /\ CodedFailure(ScriptedReply) )
    => IF ScriptedReply.code = 409
         THEN /\ outcome = Returned
              /\ Len(output) = 1
         ELSE /\ outcome.kind = "raised"
              /\ SameError(outcome.exc, ScriptedReply)

\* C6 as stated: in a single-call operation a coded failure is intercepted
\* only if it is 404 on get_course or 409 on an enrollment create; every
\* other one propagates unchanged.
C6_OnlyTwoIntercepted ==
    ( /\ op \in SingleCallOperations
      /\ pc = "done"
      /\ responses # <<>>
      /\ CodedFailure(Last(responses))
      /\ ~(op = "get_course" /\ Last(responses).code = 404)
      /\ ~(op \in EnrollOperations /\ Last(responses).code = 409) )
    => /\ outcome.kind = "raised"
       /\ SameError(outcome.exc, Last(responses))

\* C6 amended: the alias snippets intercept every HttpError and report it;
\* at the other call-sites a coded failure other than 404 on get_course and
\* 409 on an enrollment create propagates unchanged.
C6_InterceptedFailures ==
    ( /\ op \in SingleCallOperations
      /\ pc = "done"
      /\ responses # <<>>
      /\ Last(responses).kind = "err" )
    => IF op \in AliasOperations
         THEN /\ outcome = Returned
              /\ Len(output) = 1
              /\ output[1].text \in
                    {"Course Creation Failed", "Alias Creation Failed"}
         ELSE ( /\ CodedFailure(Last(responses))
                /\ ~(op = "get_course" /\ Last(responses).code = 404)
                /\ ~(op \in EnrollOperations /\ Last(responses).code = 409) )
              => /\ outcome.kind = "raised"
                 /\ SameError(outcome.exc, Last(responses))

C6_Witness ==
    /\ op = "add_alias_existing"
    /\ pc = "done"
    /\ CodedFailure(responses[1])
    /\ responses[1].code = 500
    /\ outcome = Returned
    /\ output = <<Msg("Alias Creation Failed", "")>>

\* C7 as stated, for the operations that can be invoked: every finished
\* single-call method has issued exactly one request.
C7_ExactlyOneRequest ==
    (op \in SingleCallOperations \cap Methods /\ pc = "done")
    => Len(requests) = 1

\* C7 amended: create_course, get_course, patch_course, add_alias_new and
\* add_alias_existing issue exactly one request; update_course issues a get
\* and, if the get succeeds, one update; no request follows a failed one.
\* The nested functions, not being attributes of the class, issue none.
C7_RequestCounts ==
    /\ \A i \in 1..(Len(responses) - 1) : responses[i].kind # "err"
    /\ pc = "done" =>
         /\ op \in {"create_course", "get_course", "patch_course",
                    "add_alias_new", "add_alias_existing"}
            => Len(requests) = 1
         /\ op = "update_course" =>
              IF responses[1].kind = "err"
                THEN Len(requests) = 1
                ELSE /\ Len(requests) = 2
                     /\ requests[1].method = "courses.get"
                     /\ requests[2].method = "courses.update"
         /\ op \in NestedFunctions => Len(requests) = 0

C7_Witness ==
    /\ op = "update_course"
    /\ pc = "done"
    /\ Len(requests) = 2
    /\ outcome = Returned

\* C8: a failed page fetch of list_courses is the last request issued; the
\* call ends raising that failure and nothing was printed.
C8_AbortOnFailure ==
    op = "list_courses" =>
      \A i \in 1..Len(responses) :
        responses[i].kind = "err" =>
          /\ i = Len(responses)
          /\ Len(requests) = i
          /\ pc = "done"
          /\ outcome.kind = "raised"
          /\ SameError(outcome.exc, responses[i])
          /\ output = <<>>

C8_Witness ==
    /\ op = "list_courses"
    /\ pc = "done"
    /\ Len(responses) = 3
    /\ responses[3].kind = "err"
    /\ courses # <<>>
    /\ output = <<>>
    /\ outcome.kind = "raised"

\* C9: a listing that completes with nothing accumulated prints only the
\* none-found message; otherwise it prints the header and then every
\* accumulated item once, in accumulated order.
C9_Reporting ==
    (op = "list_courses" /\ pc = "done" /\ outcome = Returned) =>
      IF courses = <<>>
        THEN output = <<Msg("No courses found.", "")>>
        ELSE /\ Len(output) = Len(courses) + 1
             /\ output[1] = Msg("Courses:", "")
             /\ \A i \in 1..Len(courses) :
                   output[i + 1] = Msg("course", courses[i])

C9_Witness ==
    /\ op = "list_courses"
    /\ pc = "done"
    /\ outcome = Returned
    /\ Len(responses) = 1
    /\ responses[1].items = <<>>
    /\ ~responses[1].hasToken
    /\ courses = <<>>
    /\ output = <<Msg("No courses found.", "")>>

HasNextToken(r) == r.kind = "ok" /\ r.hasToken /\ r.token # ""

C10_LoopState ==
    op = "list_courses" =>
      /\ \A i \in 1..(Len(responses) - 1) : HasNextToken(responses[i])
      /\ (pc = "loop" /\ responses # <<>>) => HasNextToken(Last(responses))
      /\ (responses # <<>> /\ Last(responses).kind = "ok"
            /\ ~HasNextToken(Last(responses)))
         => pc \in {"report", "done"}
      /\ ListingFinished
         => /\ ~HasNextToken(Last(responses))
            /\ Len(requests) = Len(responses)

C10_LoopStep ==
    ( /\ op = "list_courses"
      /\ pc = "loop"
      /\ HasNextToken(pending) )
    => /\ pc' = "loop"
       /\ ~pending.hasItems => courses' = courses
       /\ ENABLED ListCoursesFetch

\* C10: the loop of list_courses leaves exactly on a response whose
\* next-token is absent or empty, after one request per page served; while
\* responses carry a non-empty next-token the next fetch is always issued,
\* whatever the number of pages so far, and a page with a next-token but no
\* items field adds nothing and keeps the loop going.
C10_Termination == []C10_LoopState /\ [][C10_LoopStep]_vars

C10_Witness ==
    /\ op = "list_courses"
    /\ pc = "loop"
    /\ Len(responses) >= 3
    /\ ~responses[2].hasItems
    /\ HasNextToken(responses[3])
====
